---- MODULE Spec2Model ----
(***************************************************************************)
(* A model of the TSP solver benchmark driver: main.py (main, run_solvers, *)
(* write_to_file_and_console) and src/domain/utils.py (get_distance_matrix,*)
(* get_tour_length, get_all_instance_names).  The solver adapters of       *)
(* src/domain/solver.py and the tsplib95 loader are external: a call to    *)
(* them is a nondeterministic choice among the values they can return and  *)
(* the exception they can raise.                                           *)
(*                                                                         *)
(* Python values are modelled as follows.  None is the empty tuple and a   *)
(* present optional value x is <<x>>.  A float that results from a true    *)
(* division is an exact fraction [num, den] in lowest terms with den > 0.  *)
(* A dict is a TLA+ record or function; an insertion-ordered dict that is  *)
(* iterated is a sequence of <<key, value>> pairs.  A Python list index i  *)
(* (from 0) is the TLA+ sequence index i + 1.  A call that can raise       *)
(* returns [ok |-> TRUE, val |-> v] or [ok |-> FALSE, err |-> type].       *)
(***************************************************************************)
EXTENDS Integers, Sequences, FiniteSets, TLC

(***************************************************************************)
(* Bounds of the model.                                                    *)
(***************************************************************************)
\* number of instance names get_all_instance_names returns
MaxInstances == 2
\* largest runs= a direct caller of run_solvers passes
MaxRuns == 2
\* largest edge weight of the matrices get_tour_length is applied to
MaxWeight == 2

(***************************************************************************)
(* Program constants.                                                      *)
(***************************************************************************)
\* main.py:115, the runs= main passes to run_solvers
MainRuns == 1
\* main.py:99, instances with more nodes are skipped
SizeCeiling == 100
\* utils.py:15, the factor of the matrix handed to the solvers
Scale == 10000

None == <<>>
Some(x) == <<x>>

Ok(v) == [ok |-> TRUE, val |-> v]
Raise(e) == [ok |-> FALSE, err |-> e]

(***************************************************************************)
(* Arithmetic.                                                             *)
(***************************************************************************)
Abs(x) == IF x < 0 THEN -x ELSE x

RECURSIVE GCD(_, _)
GCD(a, b) == IF b = 0 THEN a ELSE GCD(b, a % b)

\* the fraction n/d (d # 0) in lowest terms with a positive denominator
Rat(n, d) ==
    LET g == GCD(Abs(n), Abs(d))
        s == IF d < 0 THEN -1 ELSE 1
    IN  [num |-> s * (n \div g), den |-> s * (d \div g)]

RatOfInt(x) == [num |-> x, den |-> 1]
RatSub(a, b) == Rat(a.num * b.den - b.num * a.den, a.den * b.den)
RatMul(a, b) == Rat(a.num * b.num, a.den * b.den)
RatDiv(a, b) == Rat(a.num * b.den, a.den * b.num)

\* Python's sum() of a list of integers
RECURSIVE Sum(_)
Sum(s) == IF s = <<>> THEN 0 ELSE Head(s) + Sum(Tail(s))

\* Python's min() of a non-empty list of integers
Min(s) == CHOOSE x \in {s[i] : i \in 1..Len(s)} :
              \A j \in 1..Len(s) : x <= s[j]

\* round(x, nd) and format(x, ".<nd>f"): the nearest multiple of 10^-nd
\* as a fraction, a tie going to the even one (Python decides a tie on the
\* float's binary value; the values the model rounds have no tie)
Pow10(nd) == IF nd = 2 THEN 100 ELSE 10000
Round(x, nd) ==
    LET p == Pow10(nd)
        n == x.num * p
        q == n \div x.den
        r == n % x.den
        up == \/ 2 * r > x.den
              \/ 2 * r = x.den /\ q % 2 = 1
    IN  Rat(IF up THEN q + 1 ELSE q, p)

(***************************************************************************)
(* A tsplib95 problem: dimension, the lowest node index (get_nodes() is    *)
(* lowest .. lowest + dimension - 1) and the edge weights get_weight       *)
(* returns, row by row.                                                    *)
(***************************************************************************)
Nodes(problem) == problem.lowest .. (problem.lowest + problem.dimension - 1)

\* problem.get_weight(a, b); a node the problem does not have raises
GetWeight(problem, a, b) ==
    IF a \in Nodes(problem) /\ b \in Nodes(problem)
    THEN Ok(problem.weight[a - problem.lowest + 1][b - problem.lowest + 1])
    ELSE Raise("IndexError")

\* get_tour_length with range(len(tour) - 1) for the loop: the closing
\* edge from the last node back to the first is not added
GetTourLengthOpenPath(problem, tour) ==
    LET lowest_index == problem.lowest
    IN  IF tour = <<>> THEN Raise("ValueError")
        ELSE
        LET lowest_tour_index == Min(tour)
            d == lowest_index - lowest_tour_index
            edge(i) == GetWeight(problem, tour[i + 1] + d, tour[i + 2] + d)
            I == 0..(Len(tour) - 2)
        IN  IF \E i \in I : ~edge(i).ok THEN Raise("IndexError")
            ELSE Ok(Sum([k \in 1..(Len(tour) - 1) |-> edge(k - 1).val]))

\* get_distance_matrix without the factor 10000
GetDistanceMatrixUnscaled(problem) ==
    LET n == problem.dimension
        starting_node_index == problem.lowest
    IN  [i \in 0..(n - 1) |->
            [j \in 0..(n - 1) |->
                IF i # j
                THEN GetWeight(problem, i + starting_node_index,
                               j + starting_node_index).val
                ELSE 0]]

\* get_distance_matrix: entry [i][j] (from 0) is int(10000 * weight) off
\* the diagonal and 0 on it; the weights are integers, so int() keeps them
GetDistanceMatrix(problem) ==
    LET n == problem.dimension
        starting_node_index == problem.lowest
    IN  [i \in 0..(n - 1) |->
            [j \in 0..(n - 1) |->
                IF i # j
                THEN Scale * GetWeight(problem, i + starting_node_index,
                                       j + starting_node_index).val
                ELSE 0]]

\* get_tour_length: the sum over i in 0..len(tour)-1 of
\* get_weight(tour[i] + lowest_index - lowest_tour_index,
\*            tour[(i + 1) % n] + lowest_index - lowest_tour_index)
\* min() of an empty tour raises ValueError, tour[(i + 1) % n] past the end
\* of the tour raises IndexError, and so does a node the problem lacks
GetTourLength(problem, tour) ==
    LET n == problem.dimension
        lowest_index == problem.lowest
    IN  IF tour = <<>> THEN Raise("ValueError")
        ELSE
        LET lowest_tour_index == Min(tour)
            d == lowest_index - lowest_tour_index
            nxt(i) == ((i + 1) % n) + 1
            edge(i) == GetWeight(problem, tour[i + 1] + d, tour[nxt(i)] + d)
            I == 0..(Len(tour) - 1)
        IN  IF \E i \in I : nxt(i) > Len(tour) THEN Raise("IndexError")
            ELSE IF \E i \in I : ~edge(i).ok THEN Raise("IndexError")
            ELSE Ok(Sum([k \in 1..Len(tour) |-> edge(k - 1).val]))

(***************************************************************************)
(* The corpus, the solvers and what the external collaborators return.     *)
(***************************************************************************)
\* main.py:69-73, the solvers dict in insertion order
SolverOrder == <<"or_tools", "python_tsp", "pyvrp">>

\* get_all_instance_names: the sorted names; name i is the i-th of them
InstanceNames == [i \in 1..MaxInstances |-> i]

\* the symmetric three-node instance of the end-to-end scenario
SmallProblem ==
    [dimension |-> 3, lowest |-> 1,
     weight |-> <<<<0, 10, 15>>, <<10, 0, 20>>, <<15, 20, 0>>>>]

\* three nodes at the same place: every edge weighs 0
ZeroProblem ==
    [dimension |-> 3, lowest |-> 1,
     weight |-> <<<<0, 0, 0>>, <<0, 0, 0>>, <<0, 0, 0>>>>]

\* an instance above the size ceiling; its weights are never read
LargeProblem == [dimension |-> SizeCeiling + 1, lowest |-> 1, weight |-> <<>>]

\* tsplib95.load of <name>.tsp: a problem, or an exception for a file that
\* is missing or malformed
TspLoads ==
    {Raise("ParsingError"), Ok(SmallProblem), Ok(ZeroProblem), Ok(LargeProblem)}

\* tsplib95.load of <name>.opt.tour: a file whose tours list holds the
\* nodes in the file's own numbering (from problem.lowest), a file with no
\* tour in it, or an exception
OptLoads(p) ==
    {Raise("ParsingError"),
     Ok([tours |-> <<>>]),
     Ok([tours |-> <<[i \in 1..p.dimension |-> p.lowest + i - 1]>>])}

TourPermutations(n) ==
    {t \in [1..n -> 0..(n - 1)] : \A i, j \in 1..n : i # j => t[i] # t[j]}

\* the permutation invariant of a tour: n entries, each of 0..n-1 once
IsPermutation(t, n) ==
    /\ Len(t) = n
    /\ {t[i] : i \in 1..Len(t)} = 0..(n - 1)

\* tours an adapter can hand back that break the invariant: an empty one,
\* one node short, one node long, a node twice, a node out of range
InvalidTours(n) ==
    {<<>>,
     [i \in 1..(n - 1) |-> i - 1],
     [i \in 1..(n + 1) |-> IF i = n + 1 THEN 0 ELSE i - 1],
     [i \in 1..n |-> IF i = n THEN 0 ELSE i - 1],
     [i \in 1..n |-> IF i = n THEN n ELSE i - 1]}

\* what solver.solve(distance_matrix) can do: raise, return a list of
\* node indices, or (GoogleORToolsSolver without a solution, solver.py:69)
\* return the pair ([], inf).  A list is a permutation of 0..n-1 when the
\* libraries behind the adapters keep the Solver interface (conform), and
\* may also break the permutation invariant when they do not
SolveReturns(solver, dm, conform) ==
    LET n == Cardinality(DOMAIN dm)
    IN  {[kind |-> "raise", tour |-> <<>>]}
        \cup {[kind |-> "list", tour |-> t] :
                t \in TourPermutations(n)
                       \cup (IF conform THEN {} ELSE InvalidTours(n))}
        \cup (IF solver = "or_tools"
              THEN {[kind |-> "pair", tour |-> <<>>]} ELSE {})

\* the local variable tour of run_solvers before the first solve returns
NoReturn == [kind |-> "unset", tour |-> <<>>]

\* end_time - start_time of one solve call, in clock ticks: a short call
\* and a long one
Durations == {1, 2}

(***************************************************************************)
(* State.                                                                  *)
(***************************************************************************)
VARIABLES
    pc,               \* where main (or run_solvers) is
    exc,              \* the exception that ended the run, or None
    idx,              \* how many instance names the for loop has taken
    solvers,          \* the solvers dict, as its names in insertion order
    adapters_conform, \* whether solve returns only permutations
    problem,          \* main's problem
    distance_matrix,  \* main's distance_matrix
    opt,              \* main's opt
    optimal_length,   \* optimal_length, None or <<number>>
    runs,             \* run_solvers' runs
    results,          \* run_solvers' results: solver name -> dict
    name,             \* run_solvers' loop variable name
    tour,             \* run_solvers' tour, the last value solve returned
    fieldnames,       \* main's fieldnames
    csv_row,          \* main's csv_row, as <<key, value>> pairs
    csv_disk,         \* the lines of the CSV file on disk
    txt_open,         \* whether the results file f is open
    txt_buf,          \* lines written to f and still in its buffer
    txt_disk,         \* the lines of the results file on disk
    console,          \* the lines printed
    base_tour,        \* the tour first given to get_tour_length
    base_length,      \* get_tour_length of the tour first given
    cur_length,       \* get_tour_length of the current tour
    reversed          \* whether the current tour runs the other way round

vars == <<pc, exc, idx, solvers, adapters_conform, problem, distance_matrix, opt, optimal_length, runs,
          results, name, tour, fieldnames, csv_row, csv_disk, txt_open,
          txt_buf, txt_disk, console, base_tour, base_length, cur_length, reversed>>

env == <<solvers, adapters_conform>>
mainLocals == <<problem, distance_matrix, opt, optimal_length>>
runLocals == <<runs, results, name, tour>>
csvVars == <<fieldnames, csv_row, csv_disk>>
txtVars == <<txt_open, txt_buf, txt_disk, console>>
tourVars == <<base_tour, base_length, cur_length, reversed>>

Line(text, args) == [line |-> text, arg |-> args]

\* write_to_file_and_console for a sequence of messages: print, then
\* f.write, which leaves the text in f's buffer (the model's runs write
\* less than the buffer holds, so nothing reaches the disk before close)
WriteToFileAndConsole(msgs) ==
    /\ console' = console \o msgs
    /\ txt_buf' = txt_buf \o msgs
    /\ UNCHANGED <<txt_open, txt_disk>>

\* an exception leaves main: inside the with block f is closed on the way
\* out, which writes its buffer to the disk
Abort(e, where, inst) ==
    /\ pc' = "raised"
    /\ exc' = Some([type |-> e, where |-> where, instance |-> inst])
    /\ IF txt_open
       THEN /\ txt_disk' = txt_disk \o txt_buf
            /\ txt_buf' = <<>>
            /\ txt_open' = FALSE
            /\ UNCHANGED console
       ELSE UNCHANGED txtVars


(***************************************************************************)
(* main, lines 59-95: the CSV header and the head of the results file.     *)
(***************************************************************************)
\* main.py:77-87, the column names
RECURSIVE SolverColumns(_)
SolverColumns(order) ==
    IF order = <<>> THEN <<>>
    ELSE <<Head(order) \o "_avg_length", Head(order) \o "_avg_time",
           Head(order) \o "_gap">> \o SolverColumns(Tail(order))

\* the columns with the gap column of every solver left out
FieldnamesNoGap(order) ==
    <<"instance_name", "dimension", "optimal_length">>
        \o SelectSeq(SolverColumns(order),
                     LAMBDA c : c \notin {n \o "_gap" : n \in
                                    {order[i] : i \in 1..Len(order)}})

Fieldnames(order) ==
    <<"instance_name", "dimension", "optimal_length">> \o SolverColumns(order)

\* dict lookup in a sequence of <<key, value>> pairs
HasKey(d, k) == \E i \in 1..Len(d) : d[i][1] = k
Get(d, k) == d[CHOOSE i \in 1..Len(d) : d[i][1] = k][2]

\* csv.DictWriter.writerow: a key that is no fieldname raises ValueError,
\* otherwise one cell per fieldname in fieldnames order, empty (None) for a
\* missing key or a None value
DictWriterRow(fields, rowdict) ==
    IF \E i \in 1..Len(rowdict) :
           rowdict[i][1] \notin {fields[j] : j \in 1..Len(fields)}
    THEN Raise("ValueError")
    ELSE Ok([j \in 1..Len(fields) |->
               [col |-> fields[j],
                val |-> IF HasKey(rowdict, fields[j])
                        THEN Get(rowdict, fields[j]) ELSE None]])

\* lines 59-90: the solvers dict, the fieldnames, and the CSV file created
\* with its header line and closed
CreateCsv ==
    /\ pc = "start"
    /\ solvers' = SolverOrder
    /\ fieldnames' = Fieldnames(solvers')
    /\ csv_disk' = <<[kind |-> "header", cells |-> fieldnames']>>
    /\ pc' = "open_results"
    /\ UNCHANGED <<exc, idx, adapters_conform, mainLocals, runLocals, csv_row,
                   txtVars, tourVars>>

\* lines 93-95: the results file opened and its two head lines written
OpenResults ==
    /\ pc = "open_results"
    /\ txt_open' = TRUE
    /\ txt_disk' = <<>>
    /\ console' = console \o <<Line("TSP Solver Comparison Results", <<>>),
                               Line("==================================================", <<>>)>>
    /\ txt_buf' = txt_buf \o <<Line("TSP Solver Comparison Results", <<>>),
                               Line("==================================================", <<>>)>>
    /\ pc' = "next_instance"
    /\ UNCHANGED <<exc, idx, env, mainLocals, runLocals, csvVars, tourVars>>

(***************************************************************************)
(* main, lines 97-117: one instance loaded.                                *)
(***************************************************************************)
\* lines 97-103: the next name taken, its .tsp file loaded, an instance
\* above the ceiling skipped, the head of the instance's block written
LoadProblem ==
    /\ pc = "next_instance"
    /\ idx < Len(InstanceNames)
    /\ idx' = idx + 1
    /\ \E ld \in TspLoads :
        \/ /\ ~ld.ok
           /\ Abort(ld.err, "load_problem", idx + 1)
           /\ UNCHANGED <<env, mainLocals, runLocals, csvVars, tourVars>>
        \/ /\ ld.ok
           /\ ld.val.dimension > SizeCeiling
           /\ problem' = ld.val
           /\ UNCHANGED <<pc, exc, env, distance_matrix, opt, optimal_length,
                          runLocals, csvVars, txtVars, tourVars>>
        \/ /\ ld.ok
           /\ ld.val.dimension <= SizeCeiling
           /\ problem' = ld.val
           /\ WriteToFileAndConsole(
                  <<Line("Problem", <<InstanceNames[idx']>>),
                    Line("------------------------------", <<>>)>>)
           /\ pc' = "load_optimal"
           /\ UNCHANGED <<exc, env, distance_matrix, opt, optimal_length,
                          runLocals, csvVars, tourVars>>

\* run_solvers line 18: every solver starts with empty lists
EmptyResults(order) ==
    [n \in {order[i] : i \in 1..Len(order)} |->
        [lengths |-> <<>>, times |-> <<>>]]

\* lines 105-117: the distance matrix, the optimal tour loaded and measured,
\* the line with the optimal length, and run_solvers entered with runs=1
LoadOptimal ==
    /\ pc = "load_optimal"
    /\ distance_matrix' = GetDistanceMatrix(problem)
    /\ \E ld \in OptLoads(problem) :
        \/ /\ ~ld.ok
           /\ Abort(ld.err, "load_optimal", idx)
           /\ UNCHANGED <<idx, env, problem, opt, optimal_length, runLocals,
                          csvVars, tourVars>>
        \/ /\ ld.ok
           /\ ld.val.tours = <<>>
           /\ opt' = ld.val
           /\ Abort("IndexError", "load_optimal", idx)
           /\ UNCHANGED <<idx, env, problem, optimal_length, runLocals,
                          csvVars, tourVars>>
        \/ /\ ld.ok
           /\ ld.val.tours # <<>>
           /\ opt' = ld.val
           /\ LET len == GetTourLength(problem, ld.val.tours[1])
              IN  /\ len.ok
                  /\ optimal_length' = Some(len.val)
                  /\ WriteToFileAndConsole(
                         <<Line("Optimal tour length", <<len.val>>)>>)
           /\ runs' = MainRuns
           /\ results' = EmptyResults(solvers)
           /\ tour' = NoReturn
           /\ pc' = "solve"
           /\ UNCHANGED <<exc, idx, env, problem, name, csvVars, tourVars>>

(***************************************************************************)
(* run_solvers.                                                            *)
(***************************************************************************)
Names(order) == {order[i] : i \in 1..Len(order)}

\* the solvers whose repetitions are not all done, and the first of them
Pending(order, res, r) == {i \in 1..Len(order) : Len(res[order[i]].times) < r}
NextSolver(order, res, r) ==
    order[CHOOSE i \in Pending(order, res, r) :
              \A j \in Pending(order, res, r) : i <= j]

\* get_tour_length(problem, tour) on what solve returned: min() of the
\* pair ([], inf) compares a list with a float and raises TypeError
LengthOfReturn(p, ret) ==
    IF ret.kind = "pair" THEN Raise("TypeError")
    ELSE GetTourLength(p, ret.tour)

\* lines 20-28, one repetition: solve is timed; if it raises, the exception
\* leaves run_solvers and main; otherwise the time is appended, the tour
\* measured (which can raise too) and the length appended
SolveAttempt ==
    /\ pc = "solve"
    /\ Pending(solvers, results, runs) # {}
    /\ LET s == NextSolver(solvers, results, runs)
       IN  /\ name' = s
           /\ \E ret \in SolveReturns(s, distance_matrix, adapters_conform) :
              \/ /\ ret.kind = "raise"
                 /\ Abort("SolverError", "solve", idx)
                 /\ UNCHANGED <<results, tour>>
              \/ /\ ret.kind # "raise"
                 /\ ~LengthOfReturn(problem, ret).ok
                 /\ \E dt \in Durations :
                       results' = [results EXCEPT ![s].times = Append(@, dt)]
                 /\ tour' = ret
                 /\ Abort(LengthOfReturn(problem, ret).err, "get_tour_length", idx)
              \/ /\ ret.kind # "raise"
                 /\ LengthOfReturn(problem, ret).ok
                 /\ \E dt \in Durations :
                       results' = [results EXCEPT
                           ![s].times = Append(@, dt),
                           ![s].lengths =
                               Append(@, LengthOfReturn(problem, ret).val)]
                 /\ tour' = ret
                 /\ pc' = IF Pending(solvers, results', runs) = {}
                          THEN "process" ELSE "solve"
                 /\ UNCHANGED <<exc, txtVars>>
    /\ UNCHANGED <<idx, env, mainLocals, runs, csvVars, tourVars>>

\* Python's truth value of optimal_length: None and 0 are false
Truthy(x) == x # None /\ x[1] # 0

\* line 37: ((avg_length - optimal_length) / optimal_length) * 100
Gap(avg_length, opt_len) ==
    RatMul(RatDiv(RatSub(avg_length, RatOfInt(opt_len)), RatOfInt(opt_len)),
           RatOfInt(100))

\* lines 32-47 for one solver: the sums divided by runs, the gap when
\* optimal_length is true, and the dict updated
Processed(res, r, opt_len) ==
    LET avg_length == Rat(Sum(res.lengths), r)
        avg_time == Rat(Sum(res.times), r)
    IN  [lengths |-> res.lengths,
         times |-> res.times,
         avg_length |-> avg_length,
         avg_time |-> avg_time,
         all_lengths |-> res.lengths,
         all_times |-> res.times,
         gap |-> IF Truthy(opt_len)
                 THEN Some(Gap(avg_length, opt_len[1])) ELSE None]

\* lines 31-49: every solver's results processed, and the dict returned
ProcessResults ==
    /\ pc = "process"
    /\ results' = [n \in DOMAIN results |->
                      Processed(results[n], runs, optimal_length)]
    /\ pc' = "report"
    /\ UNCHANGED <<exc, idx, env, mainLocals, runs, name, tour, csvVars,
                   txtVars, tourVars>>

(***************************************************************************)
(* main, lines 119-154: the instance reported and persisted.               *)
(***************************************************************************)
\* str.upper of a solver name
Upper(n) ==
    CASE n = "or_tools" -> "OR_TOOLS"
      [] n = "python_tsp" -> "PYTHON_TSP"
      [] n = "pyvrp" -> "PYVRP"

\* lines 128-143 for one solver: the lines written
SolverLines(n, result) ==
    <<Line(Upper(n) \o " RESULTS:", <<>>),
      Line("Average length", <<Round(result.avg_length, 2)>>),
      Line("Average time", <<Round(result.avg_time, 4)>>)>>
    \o (IF result.gap # None
        THEN <<Line("Optimality gap", <<Round(result.gap[1], 2)>>)>>
        ELSE <<>>)

\* lines 137-146 for one solver: the entries added to csv_row
SolverCells(n, result) ==
    <<  <<n \o "_avg_length", Some(Round(result.avg_length, 2))>>,
        <<n \o "_avg_time", Some(Round(result.avg_time, 4))>>,
        <<n \o "_gap", IF result.gap # None
                       THEN Some(Round(result.gap[1], 2)) ELSE None>> >>

\* the loop of lines 127-146 over results.items(), in insertion order
RECURSIVE ReportLines(_, _)
ReportLines(order, res) ==
    IF order = <<>> THEN <<>>
    ELSE SolverLines(Head(order), res[Head(order)])
             \o ReportLines(Tail(order), res)

RECURSIVE ReportCells(_, _)
ReportCells(order, res) ==
    IF order = <<>> THEN <<>>
    ELSE SolverCells(Head(order), res[Head(order)])
             \o ReportCells(Tail(order), res)

\* lines 119-146: csv_row built and the solvers' lines written
ReportResults ==
    /\ pc = "report"
    /\ csv_row' = << <<"instance_name", Some(InstanceNames[idx])>>,
                     <<"dimension", Some(problem.dimension)>>,
                     <<"optimal_length", optimal_length>> >>
                  \o ReportCells(solvers, results)
    /\ WriteToFileAndConsole(ReportLines(solvers, results))
    /\ pc' = "append_row"
    /\ UNCHANGED <<exc, idx, env, mainLocals, runLocals, fieldnames,
                   csv_disk, tourVars>>

\* lines 148-151: the CSV file opened for append, the row written, the file
\* closed; then the for loop goes on
AppendCsvRow ==
    /\ pc = "append_row"
    /\ LET row == DictWriterRow(fieldnames, csv_row)
       IN  \/ /\ row.ok
              /\ csv_disk' = Append(csv_disk, [kind |-> "row", cells |-> row.val])
              /\ pc' = "next_instance"
              /\ UNCHANGED <<exc, txtVars>>
           \/ /\ ~row.ok
              /\ Abort(row.err, "writerow", idx)
              /\ UNCHANGED csv_disk
    /\ UNCHANGED <<idx, env, mainLocals, runLocals, fieldnames, csv_row,
                   tourVars>>

\* lines 153-154 and the end of the with block: the two closing lines, and
\* f closed, which writes its buffer to the disk
Finish ==
    /\ pc = "next_instance"
    /\ idx = Len(InstanceNames)
    /\ console' = console \o <<Line("Results saved to", <<>>),
                               Line("CSV results saved to", <<>>)>>
    /\ txt_disk' = txt_disk \o txt_buf
                       \o <<Line("Results saved to", <<>>),
                            Line("CSV results saved to", <<>>)>>
    /\ txt_buf' = <<>>
    /\ txt_open' = FALSE
    /\ pc' = "done"
    /\ UNCHANGED <<exc, idx, env, mainLocals, runLocals, csvVars, tourVars>>

(***************************************************************************)
(* The benchmark run: main from its first line.                            *)
(***************************************************************************)
Init ==
    /\ pc = "start"
    /\ exc = None
    /\ idx = 0
    /\ solvers = <<>>
    /\ adapters_conform = TRUE
    /\ problem = None
    /\ distance_matrix = None
    /\ opt = None
    /\ optimal_length = None
    /\ runs = 0
    /\ results = <<>>
    /\ name = ""
    /\ tour = NoReturn
    /\ fieldnames = <<>>
    /\ csv_row = <<>>
    /\ csv_disk = <<>>
    /\ txt_open = FALSE
    /\ txt_buf = <<>>
    /\ txt_disk = <<>>
    /\ console = <<>>
    /\ base_tour = <<>>
    /\ base_length = None
    /\ cur_length = None
    /\ reversed = FALSE

Next ==
    \/ CreateCsv
    \/ OpenResults
    \/ LoadProblem
    \/ LoadOptimal
    \/ SolveAttempt
    \/ ProcessResults
    \/ ReportResults
    \/ AppendCsvRow
    \/ Finish

Spec == Init /\ [][Next]_vars

(***************************************************************************)
(* run_solvers called on its own, by a driver other than main: any runs,   *)
(* any optimal_length, and adapters that may break the Solver interface.   *)
(***************************************************************************)
\* the optimal_length arguments: the default None, and numbers below, at
\* and above zero
OptimalLengthArgs == {None} \cup {Some(x) : x \in {-45, 0, 30, 45}}

InitRun ==
    /\ pc = "solve"
    /\ exc = None
    /\ idx = 0
    /\ solvers = <<"or_tools", "python_tsp">>
    /\ adapters_conform = FALSE
    /\ problem = SmallProblem
    /\ distance_matrix = GetDistanceMatrix(SmallProblem)
    /\ opt = None
    /\ optimal_length \in OptimalLengthArgs
    /\ runs \in 1..MaxRuns
    /\ results = EmptyResults(solvers)
    /\ name = ""
    /\ tour = NoReturn
    /\ fieldnames = <<>>
    /\ csv_row = <<>>
    /\ csv_disk = <<>>
    /\ txt_open = FALSE
    /\ txt_buf = <<>>
    /\ txt_disk = <<>>
    /\ console = <<>>
    /\ base_tour = <<>>
    /\ base_length = None
    /\ cur_length = None
    /\ reversed = FALSE

NextRun ==
    \/ SolveAttempt
    \/ ProcessResults

SpecRun == InitRun /\ [][NextRun]_vars

(***************************************************************************)
(* get_tour_length applied to a tour, to its rotations and to its          *)
(* reversal, over every three-node matrix with weights 0..MaxWeight.       *)
(***************************************************************************)
TourNodes == {1, 2, 3}

\* the n x n matrices with a zero diagonal, symmetric or not
Matrices ==
    {[i \in TourNodes |-> [j \in TourNodes |->
          IF i = j THEN 0 ELSE f[<<i, j>>]]] :
     f \in [{<<i, j>> \in TourNodes \X TourNodes : i # j} -> 0..MaxWeight]}

TourProblems ==
    {[dimension |-> Cardinality(TourNodes), lowest |-> lo, weight |-> m] :
         lo \in {0, 1}, m \in Matrices}

InitTour ==
    /\ pc = "tour"
    /\ exc = None
    /\ idx = 0
    /\ solvers = <<>>
    /\ adapters_conform = TRUE
    /\ problem \in TourProblems
    /\ distance_matrix = None
    /\ opt = None
    /\ optimal_length = None
    /\ runs = 0
    /\ results = <<>>
    /\ name = ""
    /\ tour \in {[kind |-> "list", tour |-> t] :
                    t \in TourPermutations(Cardinality(TourNodes))}
    /\ fieldnames = <<>>
    /\ csv_row = <<>>
    /\ csv_disk = <<>>
    /\ txt_open = FALSE
    /\ txt_buf = <<>>
    /\ txt_disk = <<>>
    /\ console = <<>>
    /\ base_tour = tour.tour
    /\ base_length = None
    /\ cur_length = None
    /\ reversed = FALSE

notTour == <<exc, idx, env, mainLocals, runs, results, name, csvVars, txtVars>>

\* get_tour_length(problem, tour) for the tour given
MeasureTour ==
    /\ pc = "tour"
    /\ cur_length' = Some(GetTourLength(problem, tour.tour).val)
    /\ base_length' = cur_length'
    /\ pc' = "measured"
    /\ UNCHANGED <<tour, base_tour, reversed, notTour>>

\* get_tour_length for the tour started one node later
RotateTour ==
    /\ pc = "measured"
    /\ tour' = [tour EXCEPT !.tour = Tail(@) \o <<Head(@)>>]
    /\ cur_length' = Some(GetTourLength(problem, tour'.tour).val)
    /\ UNCHANGED <<pc, base_tour, base_length, reversed, notTour>>

\* get_tour_length for the tour walked the other way round
ReverseTour ==
    /\ pc = "measured"
    /\ tour' = [tour EXCEPT !.tour = [i \in 1..Len(@) |-> @[Len(@) + 1 - i]]]
    /\ cur_length' = Some(GetTourLength(problem, tour'.tour).val)
    /\ reversed' = ~reversed
    /\ UNCHANGED <<pc, base_tour, base_length, notTour>>

NextTour ==
    \/ MeasureTour
    \/ RotateTour
    \/ ReverseTour

SpecTour == InitTour /\ [][NextTour]_vars

(***************************************************************************)
(* Properties.                                                             *)
(***************************************************************************)
Ended == pc \in {"done", "raised"}
Range(q) == {q[i] : i \in 1..Len(q)}

\* the rows of the CSV file on disk, and the row of an instance
CsvRows == {csv_disk[k].cells : k \in 2..Len(csv_disk)}
HasRow(i) == \E r \in CsvRows : r[1].val = Some(InstanceNames[i])
Cell(r, c) == r[CHOOSE j \in 1..Len(r) : r[j].col = c].val

\* the instances whose iteration of main's loop has run to its end with a
\* result: their block was begun and the loop has moved on
Completed(i) ==
    /\ Line("Problem", <<InstanceNames[i]>>) \in Range(console)
    /\ \/ i < idx
       \/ i = idx /\ pc \in {"next_instance", "done"}

RaisedIn(places) == exc # None /\ exc[1].where \in places

\* C1: when a solver's solve call raises on instance X, the run still ends
\* with a row for X that holds the other solvers' metrics, and with every
\* later instance of the corpus taken by the loop.
C1_SolverFailureIsolated ==
    (Ended /\ RaisedIn({"solve"})) =>
        /\ idx = Len(InstanceNames)
        /\ \E r \in CsvRows :
              /\ r[1].val = Some(InstanceNames[exc[1].instance])
              /\ \A n \in Names(solvers) \ {name} :
                    Cell(r, n \o "_avg_length") # None

\* C2: the averages run_solvers reports are means over the successful
\* repetitions only: a solver with at least one recorded length has
\* avg_length = sum(lengths) / len(lengths) and avg_time the mean of the
\* times of those repetitions, also when another repetition failed.
C2_MeanOverSuccessful ==
    (pc \in {"report", "raised"}) =>
        \A n \in Names(solvers) :
            LET k == Len(results[n].lengths)
            IN  k >= 1 =>
                /\ "avg_length" \in DOMAIN results[n]
                /\ results[n].avg_length = Rat(Sum(results[n].lengths), k)
                /\ results[n].avg_time =
                       Rat(Sum(SubSeq(results[n].times, 1, k)), k)

\* C3: in every metrics record run_solvers produces, gap is
\* (A - L) / L * 100 when L is known and L > 0, and None when L is None or
\* L <= 0.
C3_GapDefinedForPositiveOptimum ==
    pc = "report" =>
        \A n \in Names(solvers) :
            LET A == results[n].avg_length
                L == optimal_length
            IN  results[n].gap =
                    IF L # None /\ L[1] > 0
                    THEN Some(Rat((A.num - L[1] * A.den) * 100, A.den * L[1]))
                    ELSE None

\* C4: every instance whose processing has completed has its row in the
\* CSV file on disk and its block in the results file on disk.
C4_CompletedInstancesDurable ==
    \A i \in 1..Len(InstanceNames) :
        Completed(i) =>
            /\ HasRow(i)
            /\ Line("Problem", <<InstanceNames[i]>>) \in Range(txt_disk)

\* the columns the schema names, for the solvers in declaration order
ExpectedColumns ==
    <<"instance_name", "dimension", "optimal_length",
      "or_tools_avg_length", "or_tools_avg_time", "or_tools_gap",
      "python_tsp_avg_length", "python_tsp_avg_time", "python_tsp_gap",
      "pyvrp_avg_length", "pyvrp_avg_time", "pyvrp_gap">>

\* C5: once the CSV file exists its first line is the header with the
\* schema's columns, no later line is a header, and every row has exactly
\* the schema's columns in the schema's order.
C5_RowSchema ==
    pc # "start" =>
        /\ Len(csv_disk) >= 1
        /\ csv_disk[1] = [kind |-> "header", cells |-> ExpectedColumns]
        /\ \A k \in 2..Len(csv_disk) :
              /\ csv_disk[k].kind = "row"
              /\ Len(csv_disk[k].cells) = Len(ExpectedColumns)
              /\ \A j \in 1..Len(ExpectedColumns) :
                    csv_disk[k].cells[j].col = ExpectedColumns[j]

\* two rows on disk, one of them with empty (absent) gap cells
C5_Witness ==
    /\ Len(csv_disk) = 3
    /\ \E r \in CsvRows : Cell(r, "pyvrp_gap") = None
    /\ \E r \in CsvRows : Cell(r, "pyvrp_gap") # None

\* the sum of the weights of the tour's cyclic edges, read from the
\* problem's weight rows: node k (from 0) is row k + 1
CyclicEdgeSum(p, t) ==
    LET n == Len(t)
    IN  Sum([i \in 1..n |-> p.weight[t[i] + 1][t[(i % n) + 1] + 1]])

Symmetric(p) ==
    \A i, j \in 1..p.dimension : p.weight[i][j] = p.weight[j][i]

\* C6 as stated: the length of a tour is the sum of its cyclic edge
\* weights, and no rotation and no reversal of the tour changes it, for
\* any matrix, symmetric or not.
C6_RotationAndReversalInvariant ==
    pc = "measured" =>
        /\ cur_length = Some(CyclicEdgeSum(problem, tour.tour))
        /\ cur_length = base_length

\* C6 amended: the length of a tour is the sum of its cyclic edge weights;
\* no rotation changes it, and a reversal does not change it when the
\* matrix is symmetric.
C6_RotationInvariantReversalIfSymmetric ==
    pc = "measured" =>
        /\ cur_length = Some(CyclicEdgeSum(problem, tour.tour))
        /\ (~reversed \/ Symmetric(problem)) => cur_length = base_length

\* a tour rotated and reversed on a symmetric matrix with three different
\* weights
C6_Witness ==
    /\ pc = "measured"
    /\ reversed
    /\ Symmetric(problem)
    /\ Cardinality({problem.weight[1][2], problem.weight[2][3],
                    problem.weight[1][3]}) = 3
    /\ tour.tour[1] # base_tour[1]
    /\ tour.tour[1] # base_tour[Len(base_tour)]
    /\ cur_length = base_length

\* the cost of a tour in the matrix handed to the solvers
MatrixTourCost(dm, t) ==
    LET n == Len(t)
    IN  Sum([i \in 1..n |-> dm[t[i]][t[(i % n) + 1]]])

InRunSolvers == pc \in {"solve", "process", "report", "append_row"}

\* the optimal tour of the .opt.tour file in the matrix's numbering
OptTourFromZero == [i \in 1..Len(opt.tours[1]) |-> opt.tours[1][i] - problem.lowest]

\* C7 as stated: the recorded length of an attempt, and the optimal
\* length, is the tour's cost in the matrix handed to the solvers.
C7_LengthIsMatrixCost ==
    InRunSolvers =>
        /\ optimal_length[1] = MatrixTourCost(distance_matrix, OptTourFromZero)
        /\ tour.kind = "list" =>
              results[name].lengths[Len(results[name].lengths)]
                  = MatrixTourCost(distance_matrix, tour.tour)

\* C7 amended: the recorded length of an attempt, and the optimal length,
\* is the sum of the problem's own edge weights over the tour; the matrix
\* handed to the solvers holds those weights times 10000, so the tour's
\* cost in that matrix is 10000 times the recorded length.
C7_LengthIsWeightSumMatrixIsScaled ==
    InRunSolvers =>
        /\ optimal_length[1] = CyclicEdgeSum(problem, OptTourFromZero)
        /\ Scale * optimal_length[1]
               = MatrixTourCost(distance_matrix, OptTourFromZero)
        /\ tour.kind = "list" =>
              LET len == results[name].lengths[Len(results[name].lengths)]
              IN  /\ len = CyclicEdgeSum(problem, tour.tour)
                  /\ Scale * len = MatrixTourCost(distance_matrix, tour.tour)

\* the last solver's attempt recorded with a length above zero
C7_Witness ==
    /\ pc = "process"
    /\ tour.kind = "list"
    /\ name = "pyvrp"
    /\ results[name].lengths = <<45>>
    /\ optimal_length = Some(45)
    /\ MatrixTourCost(distance_matrix, tour.tour) = 450000

\* C8: a solver whose solve call raises on every repetition does not abort
\* the run: the run ends normally, and the instance's row holds no number
\* for that solver's average.
C8_AlwaysRaisingSolverRecorded ==
    (Ended /\ RaisedIn({"solve"})) =>
        /\ pc = "done"
        /\ results[name].lengths = <<>>
        /\ results[name].times = <<>>
        /\ \A r \in CsvRows :
              r[1].val = Some(InstanceNames[exc[1].instance])
                  => Cell(r, name \o "_avg_length") = None

\* C9: an attempt whose tour breaks the permutation invariant is a failed
\* attempt: when solve has returned such a tour, no length has been
\* appended for that repetition (the solver has fewer lengths than
\* repetitions run).
C9_InvalidTourIsFailedAttempt ==
    (tour.kind = "list" /\ ~IsPermutation(tour.tour, problem.dimension)) =>
        Len(results[name].lengths) < Len(results[name].times)

\* C10: when loading an instance's problem file or optimal tour file
\* fails, the instance is skipped: the run ends normally with every
\* instance name taken by the loop and the results file closed.
C10_LoadFailureSkipsInstance ==
    RaisedIn({"load_problem", "load_optimal"}) =>
        /\ pc # "raised"
        /\ Ended => (pc = "done" /\ idx = Len(InstanceNames) /\ ~txt_open)
====
